---------------------------- MODULE Spec2Model ----------------------------
(***************************************************************************)
(* The debugger event channel (DebugEventListener) and the test session    *)
(* coordinator (TestRunner) of the C# extension.                           *)
(*                                                                         *)
(* Two variants of DebugEventListener exist in the sources:                *)
(*   - the one TestRunner constructs (fileName, server, logger), which     *)
(*     forwards lifecycle events to the upstream server as debugTestLaunch *)
(*     and debugTestStop requests (src/unnamed/part_001 lines 189-332,     *)
(*     repeated in src/src/features/documentSymbolProvider.ts 421-564);    *)
(*   - the event-bus one (src/unnamed/part_001 lines 14-173), whose        *)
(*     close() returns a promise.                                          *)
(* Spec is TestRunner.debugTest together with the first variant, SpecRun   *)
(* is TestRunner.runTest, SpecEb is the event-bus variant driven by a      *)
(* client, and SpecConn is one debugTest session with one connection to    *)
(* its channel and a record of the traffic.                                *)
(* Both classes declare the same fields (s_activeInstance,                 *)
(* _isClosed, _serverSocket), so the specifications share the variables    *)
(* that hold them; no behaviour mixes the two classes.                     *)
(*                                                                         *)
(* One action is one turn of the event loop: a command invocation, an I/O  *)
(* completion or a socket event, together with every promise continuation  *)
(* (microtask) that runs before the loop takes the next event.             *)
(***************************************************************************)
EXTENDS Integers, Sequences, FiniteSets, TLC

\* ------------------------------------------------------------------ bounds
\* Sessions started by the user (runTest / debugTest invocations).  Session
\* s constructs at most one DebugEventListener, identified by s as well.
MaxSess == 2
\* Inbound socket events (connections accepted and data chunks delivered),
\* all channels together.  The end of a connection is not counted: there is
\* one per connection.
MaxEvents == 2
\* Length of the result list of a run-test response.
MaxResults == 2
\* close() invocations on one event-bus instance.
MaxCloses == 2
\* Data chunks of the recorded connection (SpecConn).
MaxChunks == 2
\* Failures the environment reports to the recorded channel (SpecConn).
MaxFaults == 2
\* Listeners registered on the event-bus instance (SpecBus).
MaxListeners == 3

Sess == 1..MaxSess
Inst == 1..MaxSess
\* `null` for s_activeInstance and for debugTest's debugEventListener local.
Null == 0

\* --------------------------------------------------------------- variables
VARIABLES
    platform,           \* os.platform(): "win32" or "posix"
    s_activeInstance,   \* DebugEventListener.s_activeInstance
    isClosed,           \* _isClosed of each instance
    serverSocket,       \* _serverSocket of each instance
    startPc,            \* where each instance's start() promise stands
    sockets,            \* number of open connections of each instance's server
    accepted,           \* connections accepted so far, all channels together
    chunks,             \* data chunks delivered so far, all channels together
    closeCalls,         \* close() invocations on each instance
    serverCloseCalls,   \* _serverSocket.close() invocations
    debugTestStops,     \* debugTestStop requests sent for each instance
    firstStop,          \* the first stop signal that found _isClosed false:
                        \* "none", "frame" (DebuggingStopped) or "end"
    launchPending,      \* debugTestLaunch requests awaiting their response
    launchSubs,         \* live onTestMessage subscriptions of onProcessLaunched
    pc,                 \* position of each session
    op,                 \* "runTest" or "debugTest"
    debugType,          \* debugTest's debugType local
    debugEventListener, \* debugTest's debugEventListener local
    subscribed,         \* the session's transient test-message listener is live
    disposals,          \* dispose() calls on that listener
    errorMessages,      \* showErrorMessage calls of each session
    summary,            \* the totals _reportResults logged for each session
    debuggerEventsPipeName, \* of the launch configuration the front-end holds
    closeCallbacks,     \* event-bus variant: pending server-close callbacks
    stoppedFired,       \* event-bus variant: onDebuggingStopped listener calls
    wire,               \* SpecConn: the chunks the connection has delivered
    dispatched,         \* SpecConn: the events the data handler has dispatched
    warnings,           \* SpecConn: the warnings the channel has logged
    faults,             \* SpecConn: the failures the environment has reported
    saveResult,         \* SpecRun: how saveAll settled for each session
    ioLog,              \* SpecStart: what the channels' start() calls have
                        \* done so far, in order
    runResponse,        \* SpecReport: how the run-test request of the first
                        \* session settled, and the result list it carried
    projectInfo,        \* SpecBranch: the project-information response each
                        \* session was given
    bus,                \* SpecBus: the event-bus instance's _eventBus, the
                        \* listener calls made and the close() promises settled
    unitTestDebugingOptions, \* SpecCfg: the csharp.unitTestDebugingOptions
                        \* setting, as a JavaScript value
    objects,            \* SpecCfg: the option and configuration objects
    startInfo,          \* SpecCfg: the start-info response of each session
    launchConfig        \* SpecCfg: the value each session's
                        \* _createLaunchConfiguration returned

channelVars == <<platform, s_activeInstance, isClosed, serverSocket,
                 startPc, sockets, accepted, chunks, closeCalls, serverCloseCalls,
                 debugTestStops, firstStop, launchPending,
                 launchSubs>>
sessionVars == <<pc, op, debugType, debugEventListener, subscribed, disposals,
                 errorMessages, summary, debuggerEventsPipeName>>
ebVars == <<closeCallbacks, stoppedFired>>
cfgVars == <<unitTestDebugingOptions, objects, startInfo, launchConfig>>
logVars == <<wire, dispatched, warnings, faults, saveResult, ioLog, bus,
            runResponse, projectInfo, cfgVars>>
vars == <<channelVars, sessionVars, ebVars, logVars>>


\* ------------------------------------------------------------ wire format
\* A chunk is the sequence of 32-bit little-endian words of one data
\* callback.  The codec (coreclr-debug/debuggerEventsProtocol) is imported by
\* the sources and not part of them; it is modelled from the wire table of
\* the specification: word 1 is the event type, word 2 of a ProcessLaunched
\* frame is the target process id.
ProcessLaunchedCode == 0
DebuggingStoppedCode == 1
Pids == {4242}
Malformed == [eventType |-> "Malformed"]
Chunks == {<<ProcessLaunchedCode, p>> : p \in Pids}
            \cup {<<DebuggingStoppedCode>>, <<ProcessLaunchedCode>>, <<2>>}
            \cup {<<p>> : p \in Pids}
            \cup {<<ProcessLaunchedCode, p, DebuggingStoppedCode>> : p \in Pids}

decodePacket(chunk) ==
    IF Len(chunk) < 1 THEN Malformed
    ELSE IF chunk[1] = ProcessLaunchedCode
         THEN IF Len(chunk) < 2 THEN Malformed
              ELSE [eventType |-> "ProcessLaunched", targetProcessId |-> chunk[2]]
    ELSE IF chunk[1] = DebuggingStoppedCode
         THEN [eventType |-> "DebuggingStopped"]
    ELSE Malformed

\* The number of words of the frame that starts with the given type word,
\* 0 for a type the wire table does not have.
FrameLen(type) ==
    IF type = ProcessLaunchedCode THEN 2
    ELSE IF type = DebuggingStoppedCode THEN 1
    ELSE 0

\* The complete frames at the head of a stream of words, decoded, in order,
\* and the words that follow them (an incomplete or unknown frame).
RECURSIVE Frames(_)
Frames(words) ==
    IF words = <<>> THEN <<>>
    ELSE LET n == FrameLen(words[1])
         IN  IF n = 0 \/ Len(words) < n THEN <<>>
             ELSE <<decodePacket(SubSeq(words, 1, n))>>
                      \o Frames(SubSeq(words, n + 1, Len(words)))

RECURSIVE Rest(_)
Rest(words) ==
    IF words = <<>> THEN <<>>
    ELSE LET n == FrameLen(words[1])
         IN  IF n = 0 \/ Len(words) < n THEN words
             ELSE Rest(SubSeq(words, n + 1, Len(words)))

\* The words of a sequence of chunks, in order of arrival.
RECURSIVE Flatten(_)
Flatten(chunkSeq) ==
    IF chunkSeq = <<>> THEN <<>>
    ELSE Head(chunkSeq) \o Flatten(Tail(chunkSeq))

\* ----------------------------------------------------- run-test results
\* protocol.V2.TestOutcomes tags of a result, and one tag that is none of the
\* three the report counts.
Outcomes == {"passed", "failed", "skipped", "none"}

ResultLists == UNION {[1..n -> Outcomes] : n \in 0..MaxResults}

NoSummary == [logged |-> FALSE]

\* The three counters before the loop: let totalPassed = 0, ...
NoTotals == [passed |-> 0, failed |-> 0, skipped |-> 0]

\* The switch without its break statements: a case falls through into the
\* cases below it.
tally_noBreak(totals, outcome) ==
    CASE outcome = "failed" ->
           [passed |-> totals.passed + 1, failed |-> totals.failed + 1,
            skipped |-> totals.skipped + 1]
      [] outcome = "passed" ->
           [totals EXCEPT !.passed = @ + 1, !.skipped = @ + 1]
      [] outcome = "skipped" -> [totals EXCEPT !.skipped = @ + 1]
      [] OTHER -> totals

\* One turn of the loop body: the switch on result.Outcome.
tally(totals, outcome) ==
    CASE outcome = "failed" -> [totals EXCEPT !.failed = @ + 1]
      [] outcome = "passed" -> [totals EXCEPT !.passed = @ + 1]
      [] outcome = "skipped" -> [totals EXCEPT !.skipped = @ + 1]
      [] OTHER -> totals

\* for (let result of results): the counters after the results left to
\* visit, starting from totals.
RECURSIVE reportLoop(_, _)
reportLoop(results, totals) ==
    IF results = <<>> THEN totals
    ELSE reportLoop(Tail(results), tally(totals, Head(results)))

\* _reportResults(): the totals line it logs.
_reportResults(results) ==
    LET totals == reportLoop(results, NoTotals)
    IN  [logged |-> TRUE, total |-> Len(results),
         passed |-> totals.passed, failed |-> totals.failed,
         skipped |-> totals.skipped]

\* ------------------------------------------------ DebugEventListener state
\* The fields close() and the stop handling read and write, as one record,
\* so that the methods are functions from record to record and a caller can
\* chain them (start() calls close(), onDebuggingStopped() calls close()).
Heap ==
    [active |-> s_activeInstance, closed |-> isClosed, server |-> serverSocket,
     closeCalls |-> closeCalls, serverCloseCalls |-> serverCloseCalls,
     stops |-> debugTestStops]

SetHeap(h) ==
    /\ s_activeInstance' = h.active
    /\ isClosed' = h.closed
    /\ serverSocket' = h.server
    /\ closeCalls' = h.closeCalls
    /\ serverCloseCalls' = h.serverCloseCalls
    /\ debugTestStops' = h.stops

\* close() with the slot left as it is.
close_keepSlot(i, h) ==
    LET h0 == [h EXCEPT !.closeCalls[i] = @ + 1]
    IN  IF h0.closed[i] THEN h0
        ELSE [h0 EXCEPT !.closed[i] = TRUE,
                        !.server[i] = IF @ = "undefined" THEN @ ELSE "closed",
                        !.serverCloseCalls[i] =
                            IF h0.server[i] = "undefined" THEN @ ELSE @ + 1]

\* close() that never sets _isClosed.
close_noFlag(i, h) ==
    LET h0 == [h EXCEPT !.closeCalls[i] = @ + 1]
        h1 == IF i = h0.active THEN [h0 EXCEPT !.active = Null] ELSE h0
    IN  IF h1.closed[i] THEN h1
        ELSE [h1 EXCEPT !.server[i] = IF @ = "undefined" THEN @ ELSE "closed",
                        !.serverCloseCalls[i] =
                            IF h1.server[i] = "undefined" THEN @ ELSE @ + 1]

\* close() that sets the flag and forgets the server.
close_skipServer(i, h) ==
    LET h0 == [h EXCEPT !.closeCalls[i] = @ + 1]
        h1 == IF i = h0.active THEN [h0 EXCEPT !.active = Null] ELSE h0
    IN  IF h1.closed[i] THEN h1
        ELSE [h1 EXCEPT !.closed[i] = TRUE]

\* close() of the TestRunner's DebugEventListener.  net.Server.close() stops
\* the server from listening at once; connections already accepted stay open.
\* (_serverSocket is never null: a close() before start() would find it
\* undefined and throw; no caller does that, see TypeOK.)
close(i, h) ==
    LET h0 == [h EXCEPT !.closeCalls[i] = @ + 1]
        h1 == IF i = h0.active THEN [h0 EXCEPT !.active = Null] ELSE h0
    IN  IF h1.closed[i] THEN h1
        ELSE [h1 EXCEPT !.closed[i] = TRUE,
                        !.server[i] = IF @ = "undefined" THEN @ ELSE "closed",
                        !.serverCloseCalls[i] =
                            IF h1.server[i] = "undefined" THEN @ ELSE @ + 1]

\* onDebuggingStopped() without the closed-flag guard.
onDebuggingStopped_noGuard(i, h) ==
    close(i, [h EXCEPT !.stops[i] = @ + 1])

\* onDebuggingStopped() that sends the request and does not close.
onDebuggingStopped_noClose(i, h) ==
    IF h.closed[i] THEN h
    ELSE [h EXCEPT !.stops[i] = @ + 1]

\* onDebuggingStopped(): the closed-flag guard, the debugTestStop request,
\* then close().
onDebuggingStopped(i, h) ==
    IF h.closed[i] THEN h
    ELSE close(i, [h EXCEPT !.stops[i] = @ + 1])

\* The synchronous part of start(): close the previous holder of the slot,
\* take the slot, create the server.  What follows (removeSocketFileIfExists
\* and listen) runs in RemoveSocketFileDone.
start(i, h) ==
    LET h1 == IF h.active # Null THEN close(h.active, h) ELSE h
    IN  [h1 EXCEPT !.active = i, !.server[i] = "created"]


\* ------------------------------------------- launch configuration objects
\* JavaScript values the setting and a configuration can be: undefined, null,
\* a string, or a reference to an object, objects[ref], whose content is a
\* function from keys to strings.
Undefined == [type |-> "undefined"]

JsNull == [type |-> "null"]

JsString == [type |-> "string"]

Ref(r) == [type |-> "object", ref |-> r]

\* A number, and an array with the given elements.
JsNumber(n) == [type |-> "number", value |-> n]

JsArray(elements) == [type |-> "array", elements |-> elements]

\* typeof value; typeof null is "object".
typeof(value) == IF value.type = "null" THEN "object" ELSE value.type

EmptyObject == [k \in {} |-> ""]

\* The keys _createLaunchConfiguration assigns.
SessionKeys == {"name", "type", "request", "debuggerEventsPipeName",
                "program", "args", "cwd"}

\* Objects a user can have put under csharp.unitTestDebugingOptions: none of
\* the assigned keys, or all of them with values of the user's own.
UserOptions ==
    {EmptyObject,
     [justMyCode |-> "false"],
     [justMyCode |-> "false", name |-> "mine", type |-> "clr",
      request |-> "attach", debuggerEventsPipeName |-> "minePipe",
      program |-> "mine.exe", args |-> "--mine", cwd |-> "/mine"]}

\* What vscode.workspace.getConfiguration('csharp').get(
\* 'unitTestDebugingOptions') returns, with the objects that exist then: the
\* setting is absent, null, not an object, or an object; an object is
\* returned by reference.
Settings ==
    {[value |-> v, objects |-> <<>>] : v \in {Undefined, JsNull, JsString}}
    \cup {[value |-> Ref(1), objects |-> <<o>>] : o \in UserOptions}

Unset == [value |-> Undefined, objects |-> <<>>]

\* JSON.stringify of null or of an object of strings: the text, as the literal
\* null or the set of its members.
JSONstringify(objs, value) ==
    IF value.type = "null" THEN [literal |-> "null", members |-> {}]
    ELSE [literal |-> "object",
          members |-> {<<k, objs[value.ref][k]>> : k \in DOMAIN objs[value.ref]}]

\* JSON.parse: null, or a new object with the members of the text.
JSONparse(objs, json) ==
    IF json.literal = "null" THEN [objects |-> objs, value |-> JsNull]
    ELSE [objects |->
            Append(objs,
                   [k \in {m[1] : m \in json.members} |->
                      (CHOOSE m \in json.members : m[1] = k)[2]]),
          value |-> Ref(Len(objs) + 1)]

\* Start-info responses: the executable, its arguments and its working
\* directory (FileName, Arguments, WorkingDirectory of the vstest response;
\* Executable, Argument, WorkingDirectory of the legacy one).
StartInfos ==
    {[program |-> "dotnet", args |-> "exec testhost.dll", cwd |-> "/proj"],
     [program |-> "dotnet-test-xunit", args |-> "--designtime", cwd |-> "/old"]}

NoStartInfo == [program |-> "none", args |-> "none", cwd |-> "none"]

\* The options used as they are, without the clone.
cloneOptions_alias(objs, debugOptions) ==
    [objects |-> objs, value |-> debugOptions]

\* result = JSON.parse(JSON.stringify(debugOptions))
cloneOptions(objs, debugOptions) ==
    JSONparse(objs, JSONstringify(objs, debugOptions))

\* An assignment that leaves a key alone when the object already has it.
assign_keepExisting(objs, ref, key, value) ==
    [objs EXCEPT ![ref] = @ @@ (key :> value)]

\* result.key = value
assign(objs, ref, key, value) ==
    [objs EXCEPT ![ref] = (key :> value) @@ @]

\* The assignments of a list, in order.
RECURSIVE assignAll(_, _, _)
assignAll(objs, ref, assignments) ==
    IF assignments = <<>> THEN objs
    ELSE assignAll(assign(objs, ref, Head(assignments)[1],
                          Head(assignments)[2]),
                   ref, Tail(assignments))

\* _createLaunchConfiguration(): the objects after the call and the result;
\* throws when the clone is null, at the first assignment.
_createLaunchConfiguration(objs, debugOptions, program, args, cwd, pipeName) ==
    LET clone == IF typeof(debugOptions) = "object"
                 THEN cloneOptions(objs, debugOptions)
                 ELSE [objects |-> Append(objs, EmptyObject),
                       value |-> Ref(Len(objs) + 1)]
        result == clone.value
    IN  IF result.type = "null"
        THEN [throws |-> TRUE, objects |-> clone.objects, result |-> Undefined]
        ELSE [throws |-> FALSE,
              objects |->
                assignAll(clone.objects, result.ref,
                          << <<"name", ".NET Test Launch">>,
                             <<"type", "coreclr">>,
                             <<"request", "launch">>,
                             <<"debuggerEventsPipeName", pipeName>>,
                             <<"program", program>>,
                             <<"args", args>>,
                             <<"cwd", cwd>> >>),
              result |-> result]

\* The project-information record of a session: no response yet, and a
\* response received.
NoProjectInfo ==
    [received |-> FALSE, rejected |-> FALSE, DotNetProject |-> FALSE,
     MsBuildProject |-> FALSE]

Received(info) ==
    [received |-> TRUE, rejected |-> info.rejected,
     DotNetProject |-> info.DotNetProject,
     MsBuildProject |-> info.MsBuildProject]

\* ----------------------------------------------------------------- Init
\* The state after construction, with the setting given.
InitWith(setting) ==
    /\ platform \in {"win32", "posix"}
    /\ s_activeInstance = Null
    /\ isClosed = [i \in Inst |-> FALSE]
    /\ serverSocket = [i \in Inst |-> "undefined"]
    /\ startPc = [i \in Inst |-> "none"]
    /\ sockets = [i \in Inst |-> 0]
    /\ accepted = 0
    /\ chunks = 0
    /\ closeCalls = [i \in Inst |-> 0]
    /\ serverCloseCalls = [i \in Inst |-> 0]
    /\ debugTestStops = [i \in Inst |-> 0]
    /\ firstStop = [i \in Inst |-> "none"]
    /\ launchPending = [i \in Inst |-> 0]
    /\ launchSubs = [i \in Inst |-> 0]
    /\ pc = [s \in Sess |-> "idle"]
    /\ op = [s \in Sess |-> "none"]
    /\ debugType = [s \in Sess |-> "undefined"]
    /\ debugEventListener = [s \in Sess |-> Null]
    /\ subscribed = [s \in Sess |-> FALSE]
    /\ disposals = [s \in Sess |-> 0]
    /\ errorMessages = [s \in Sess |-> 0]
    /\ summary = [s \in Sess |-> NoSummary]
    /\ debuggerEventsPipeName = [s \in Sess |-> "none"]
    /\ closeCallbacks = [i \in Inst |-> <<>>]
    /\ stoppedFired = [i \in Inst |-> 0]
    /\ wire = <<>>
    /\ dispatched = <<>>
    /\ warnings = <<>>
    /\ faults = <<>>
    /\ saveResult = [s \in Sess |-> "pending"]
    /\ ioLog = <<>>
    /\ runResponse = [outcome |-> "pending", results |-> <<>>]
    /\ projectInfo = [s \in Sess |-> NoProjectInfo]
    /\ bus = [registered |-> <<>>, disposed |-> {}, listeners |-> <<>>,
              calls |-> <<>>, settled |-> <<>>]
    /\ unitTestDebugingOptions = setting.value
    /\ objects = setting.objects
    /\ startInfo = [s \in Sess |-> NoStartInfo]
    /\ launchConfig = [s \in Sess |-> Undefined]

\* The setting is left out of account except in SpecCfg.
Init == InitWith(Unset)

\* removeSocketFileIfExists() with the platform test left out: no file is
\* ever deleted.
removeSocketFileIfExists_never(os) == "resolved"

\* removeSocketFileIfExists(): Promise.resolve() on win32, which has no file
\* behind a pipe name, and utils.deleteIfExists(_pipePath) elsewhere.
removeSocketFileIfExists(os) ==
    IF os = "win32" THEN "resolved" ELSE "deleteIfExists"

\* On win32 removeSocketFileIfExists() returns an already resolved promise, so
\* the continuation that calls listen() is a microtask of the turn that called
\* start(): the loop takes no other event before it has run.  On posix the
\* removal is file-system I/O and other events do come in between.  (Every
\* win32 behaviour is also a posix behaviour of this model, up to the values
\* of platform.)
MicrotaskPending ==
    platform = "win32" /\ \E i \in Inst : startPc[i] = "removing"

\* The event loop is free to take the next event.
LoopIdle == ~MicrotaskPending

\* Variables the channel's socket side owns and the sessions never touch.
socketVars == <<sockets, accepted, chunks, firstStop,
                launchPending, launchSubs>>

\* ------------------------------------------------------------- TestRunner
\* _subscribeToTestMessages() and the returned disposable's dispose().
Subscribe(s) == subscribed' = [subscribed EXCEPT ![s] = TRUE]

Dispose(s) ==
    /\ subscribed' = [subscribed EXCEPT ![s] = FALSE]
    /\ disposals' = [disposals EXCEPT ![s] = @ + 1]

\* runTest's catch without the dispose.
runTestCatch_noDispose(s) ==
    /\ UNCHANGED <<subscribed, disposals>>
    /\ errorMessages' = [errorMessages EXCEPT ![s] = @ + 1]
    /\ pc' = [pc EXCEPT ![s] = "failed"]

\* runTest's catch: dispose the listener, show the error.
runTestCatch(s) ==
    /\ Dispose(s)
    /\ errorMessages' = [errorMessages EXCEPT ![s] = @ + 1]
    /\ pc' = [pc EXCEPT ![s] = "failed"]

\* debugTest's catch: show the error; close the channel if one was created.
\* h is the channel state the failing step leaves behind.
debugTestCatch(s, h) ==
    /\ errorMessages' = [errorMessages EXCEPT ![s] = @ + 1]
    /\ pc' = [pc EXCEPT ![s] = "failed"]
    /\ SetHeap(IF debugEventListener[s] # Null
               THEN close(debugEventListener[s], h) ELSE h)

\* Sessions are numbered in the order the user starts them.
NextSession(s) ==
    /\ pc[s] = "idle"
    /\ s > 1 => pc[s - 1] # "idle"
    /\ LoopIdle

\* runTest(): show the channel, subscribe, start saving.
RunTest(s) ==
    /\ NextSession(s)
    /\ UNCHANGED <<ebVars, logVars>>
    /\ op' = [op EXCEPT ![s] = "runTest"]
    /\ Subscribe(s)
    /\ pc' = [pc EXCEPT ![s] = "saving"]
    /\ UNCHANGED <<channelVars, debugType, debugEventListener, disposals,
                   errorMessages, summary,
                   debuggerEventsPipeName>>

\* debugTest(): show the channel, start saving.
DebugTest(s) ==
    /\ NextSession(s)
    /\ UNCHANGED <<ebVars, logVars>>
    /\ op' = [op EXCEPT ![s] = "debugTest"]
    /\ pc' = [pc EXCEPT ![s] = "saving"]
    /\ UNCHANGED <<channelVars, debugType, debugEventListener, subscribed,
                   disposals, errorMessages, summary,
                   debuggerEventsPipeName>>

\* vscode.workspace.saveAll settles: it resolves true, resolves false (some
\* buffer could not be saved) or rejects.  The chain ignores the boolean.
SaveOutcomes == {"saved", "notSaved", "rejected"}

\* The turn with the outcome given.
SaveDirtyFilesSettles(s, outcome) ==
    /\ pc[s] = "saving"
    /\ LoopIdle
    /\ UNCHANGED ebVars
    /\ UNCHANGED <<summary, debuggerEventsPipeName>>
    /\ IF outcome = "rejected"
       THEN IF op[s] = "runTest"
            THEN /\ runTestCatch(s)
                 /\ UNCHANGED <<channelVars, op, debugType, debugEventListener>>
            ELSE /\ debugTestCatch(s, Heap)
                 /\ UNCHANGED <<platform, startPc, socketVars, op,
                                debugType, debugEventListener, subscribed,
                                disposals>>
       ELSE /\ pc' = [pc EXCEPT ![s] =
                         IF op[s] = "runTest" THEN "running" ELSE "projectInfo"]
            /\ UNCHANGED <<channelVars, op, debugType, debugEventListener,
                           subscribed, disposals, errorMessages>>

SaveDirtyFilesDone(s) ==
    /\ pc[s] = "saving"
    /\ UNCHANGED logVars
    /\ \E outcome \in SaveOutcomes : SaveDirtyFilesSettles(s, outcome)

\* The same turn of a runTest session, with the outcome recorded.
RunSaveDirtyFilesDone(s) ==
    /\ pc[s] = "saving"
    /\ \E outcome \in SaveOutcomes :
         /\ SaveDirtyFilesSettles(s, outcome)
         /\ saveResult' = [saveResult EXCEPT ![s] = outcome]
         /\ UNCHANGED <<wire, dispatched, warnings, faults, ioLog, bus,
                        runResponse, projectInfo, cfgVars>>

\* The run-test response: rejected, a response without a Results list (so
\* that _reportResults throws reading its length), or a result list, which
\* _reportResults logs the totals of.
RunOutcomes == {"rejected", "noResults", "results"}

\* The turn with the response given.
RunTestSettles(s, outcome, results) ==
    /\ pc[s] = "running"
    /\ LoopIdle
    /\ UNCHANGED ebVars
    /\ IF outcome = "results"
       THEN /\ summary' = [summary EXCEPT ![s] = _reportResults(results)]
            /\ Dispose(s)
            /\ pc' = [pc EXCEPT ![s] = "done"]
            /\ UNCHANGED errorMessages
       ELSE /\ runTestCatch(s)
            /\ UNCHANGED summary
    /\ UNCHANGED <<channelVars, op, debugType, debugEventListener,
                   debuggerEventsPipeName>>

RunTestResponse(s) ==
    /\ pc[s] = "running"
    /\ UNCHANGED logVars
    /\ \E outcome \in RunOutcomes :
         IF outcome = "results"
         THEN \E results \in ResultLists : RunTestSettles(s, outcome, results)
         ELSE RunTestSettles(s, outcome, <<>>)

\* _getLaunchConfigurationForLegacy/ForVSTest up to the request: subscribe
\* and send the start-info request.
RequestStartInfo(s) ==
    /\ Subscribe(s)
    /\ pc' = [pc EXCEPT ![s] = "startInfo"]

\* The project-information response and debugTest's branch on it.
ProjectInfos ==
    [rejected : BOOLEAN, DotNetProject : BOOLEAN, MsBuildProject : BOOLEAN]

\* debugTest's branch with the build-system marker looked at first.
debugTestBranch_msBuildFirst(info) ==
    IF info.MsBuildProject THEN "vstest"
    ELSE IF info.DotNetProject THEN "legacy"
    ELSE "throw"

\* debugTest's branch with the build-system marker as the default.
debugTestBranch_vstestByDefault(info) ==
    IF info.DotNetProject THEN "legacy" ELSE "vstest"

\* debugTest's branch on the project information: DotNetProject is looked at
\* first, MsBuildProject next, and with neither the continuation throws.
debugTestBranch(info) ==
    IF info.DotNetProject THEN "legacy"
    ELSE IF info.MsBuildProject THEN "vstest"
    ELSE "throw"

\* The turn with the response given.
ProjectInformationArrives(s, info) ==
    /\ pc[s] = "projectInfo"
    /\ LoopIdle
    /\ UNCHANGED ebVars
    /\ IF info.rejected
       THEN /\ debugTestCatch(s, Heap)
            /\ UNCHANGED <<startPc, debugType, debugEventListener, subscribed>>
       ELSE IF debugTestBranch(info) = "legacy"
       THEN /\ debugType' = [debugType EXCEPT ![s] = "legacy"]
            /\ RequestStartInfo(s)
            /\ UNCHANGED <<s_activeInstance, isClosed, serverSocket, closeCalls,
                           serverCloseCalls, debugTestStops, startPc,
                           debugEventListener, errorMessages>>
       ELSE IF debugTestBranch(info) = "vstest"
       THEN /\ debugType' = [debugType EXCEPT ![s] = "vstest"]
            /\ debugEventListener' = [debugEventListener EXCEPT ![s] = s]
            /\ SetHeap(start(s, Heap))
            /\ startPc' = [startPc EXCEPT ![s] = "removing"]
            /\ pc' = [pc EXCEPT ![s] = "starting"]
            /\ UNCHANGED <<subscribed, errorMessages>>
       ELSE /\ debugTestCatch(s, Heap)
            /\ UNCHANGED <<startPc, debugType, debugEventListener, subscribed>>
    /\ UNCHANGED <<platform, socketVars, op, disposals, summary,
                   debuggerEventsPipeName>>

ProjectInformationResponse(s) ==
    /\ pc[s] = "projectInfo"
    /\ UNCHANGED logVars
    /\ \E info \in ProjectInfos : ProjectInformationArrives(s, info)


\* pipePath(): the _pipePath the constructor builds from the platform and the
\* process id of the extension host, the same for every instance.
pipePath(i) ==
    IF platform = "win32"
    THEN "\\\\.\\pipe\\Microsoft.VSCode.CSharpExt.TestDebugEvents-pid"
    ELSE "extensionPath/.TestDebugEvents-pid"

\* A debuggerEventsPipeName of null.
NullPipeName == "null"

\* _getLaunchConfiguration() passing no endpoint in either branch.
_getLaunchConfiguration_noEndpoint(type, listener) == NullPipeName

\* _getLaunchConfiguration() passing the listener's endpoint in either branch;
\* without a listener (legacy) that is a TypeError, the continuation throws.
_getLaunchConfiguration_alwaysEndpoint(type, listener) ==
    IF listener = Null THEN "throw" ELSE pipePath(listener)

\* _getLaunchConfiguration(): the debuggerEventsPipeName the branch for the
\* debug type passes to _createLaunchConfiguration.
_getLaunchConfiguration(type, listener) ==
    IF type = "legacy" THEN NullPipeName
    ELSE IF type = "vstest" THEN pipePath(listener)
    ELSE "throw"

\* The start-info response (either variant) and the launch configuration.
\* _createLaunchConfiguration throws when the unitTestDebugingOptions setting
\* is null: typeof null is "object", the clone is null, and the first
\* assignment to it fails.
StartInfoOutcomes == {"rejected", "configThrows", "ok"}

\* The turn with the outcome given.
StartInfoArrives(s, outcome) ==
    /\ pc[s] = "startInfo"
    /\ LoopIdle
    /\ UNCHANGED ebVars
    /\ IF outcome = "rejected"
       THEN /\ debugTestCatch(s, Heap)
            /\ UNCHANGED <<subscribed, disposals, debuggerEventsPipeName>>
       ELSE IF outcome = "configThrows"
       THEN /\ Dispose(s)
            /\ debugTestCatch(s, Heap)
            /\ UNCHANGED debuggerEventsPipeName
       ELSE /\ Dispose(s)
            /\ pc' = [pc EXCEPT ![s] = "launching"]
            /\ debuggerEventsPipeName' =
                   [debuggerEventsPipeName EXCEPT ![s] =
                      _getLaunchConfiguration(debugType[s],
                                              debugEventListener[s])]
            /\ UNCHANGED <<s_activeInstance, isClosed, serverSocket, closeCalls,
                           serverCloseCalls, debugTestStops, errorMessages>>
    /\ UNCHANGED <<platform, startPc, socketVars, op, debugType,
                   debugEventListener, summary>>

StartInfoResponse(s) ==
    /\ pc[s] = "startInfo"
    /\ UNCHANGED logVars
    /\ \E outcome \in StartInfoOutcomes : StartInfoArrives(s, outcome)

\* vscode.startDebug settling, with a coordinator that closes the channel
\* when the launch has been accepted as well.
StartDebugResult_closeOnSuccess(s) ==
    /\ pc[s] = "launching"
    /\ LoopIdle
    /\ UNCHANGED <<ebVars, logVars>>
    /\ \E ok \in BOOLEAN :
         IF ok
         THEN /\ pc' = [pc EXCEPT ![s] = "done"]
              /\ SetHeap(IF debugEventListener[s] # Null
                         THEN close(debugEventListener[s], Heap) ELSE Heap)
              /\ UNCHANGED <<errorMessages, debuggerEventsPipeName>>
         ELSE /\ debugTestCatch(s, Heap)
              /\ debuggerEventsPipeName' =
                     [debuggerEventsPipeName EXCEPT ![s] = "none"]
    /\ UNCHANGED <<platform, startPc, socketVars, op, debugType,
                   debugEventListener, subscribed, disposals, summary>>

\* vscode.startDebug settles.  An accepted launch ends the chain; a refused
\* one runs the catch, and the front-end holds no configuration of the
\* session any more.
StartDebugResult(s) ==
    /\ pc[s] = "launching"
    /\ LoopIdle
    /\ UNCHANGED <<ebVars, logVars>>
    /\ \E ok \in BOOLEAN :
         IF ok
         THEN /\ pc' = [pc EXCEPT ![s] = "done"]
              /\ UNCHANGED <<s_activeInstance, isClosed, serverSocket, closeCalls,
                             serverCloseCalls, debugTestStops, errorMessages,
                             debuggerEventsPipeName>>
         ELSE /\ debugTestCatch(s, Heap)
              /\ debuggerEventsPipeName' =
                     [debuggerEventsPipeName EXCEPT ![s] = "none"]
    /\ UNCHANGED <<platform, startPc, socketVars, op, debugType,
                   debugEventListener, subscribed, disposals, summary>>

\* ------------------------------------- DebugEventListener: start(), cont.
\* The endpoint is free for instance i to bind.  A win32 pipe name can have
\* one listening server; a posix socket path is free once its file is gone,
\* which removeSocketFileIfExists has just seen to.
CanBind(i) ==
    platform = "win32" => \A j \in Inst \ {i} : serverSocket[j] # "listening"

\* removeSocketFileIfExists() settles and the continuation calls listen().
\*  - "removeFailed": deleteIfExists rejects (posix only); start() rejects.
\*  - "bindFailed": listen() fails; the server's 'error' event arrives with
\*    isStarted false and start() rejects.
\*  - "bound": the server is listening; its listen callback is still to come.
\* A rejected start() runs debugTest's catch in the same turn.
\* Nothing here looks at _isClosed.
RemoveOutcomes == {"removeFailed", "bindFailed", "bound"}

\* The server's 'error' handler start() installs before it calls listen():
\* reject start() while isStarted is false, log a warning afterwards.
CommunicationsWarning ==
    "Warning: Communications error on debugger event channel."

\* The 'error' handler without the isStarted test.
onServerError_alwaysReject(isStarted) == "reject"

onServerError(isStarted) == IF ~isStarted THEN "reject" ELSE "warn"

\* The turn with the outcome given.
RemoveSocketFileSettles(i, outcome) ==
    /\ startPc[i] = "removing"
    /\ UNCHANGED ebVars
    /\ IF outcome = "removeFailed"
       THEN /\ removeSocketFileIfExists(platform) = "deleteIfExists"
            /\ startPc' = [startPc EXCEPT ![i] = "rejected"]
            /\ debugTestCatch(i, Heap)
       ELSE IF outcome = "bindFailed"
       THEN /\ onServerError(FALSE) = "reject"
            /\ startPc' = [startPc EXCEPT ![i] = "rejected"]
            /\ debugTestCatch(i, Heap)
       ELSE /\ CanBind(i)
            /\ startPc' = [startPc EXCEPT ![i] = "listening"]
            /\ serverSocket' = [serverSocket EXCEPT ![i] = "listening"]
            /\ UNCHANGED <<s_activeInstance, isClosed, closeCalls,
                           serverCloseCalls, debugTestStops, pc, errorMessages>>
    /\ UNCHANGED <<platform, socketVars, op, debugType, debugEventListener,
                   subscribed, disposals, summary,
                   debuggerEventsPipeName>>

RemoveSocketFileDone(i) ==
    /\ startPc[i] = "removing"
    /\ UNCHANGED logVars
    /\ \E outcome \in RemoveOutcomes : RemoveSocketFileSettles(i, outcome)

\* The listen callback: isStarted = true, start() resolves, and debugTest
\* goes on to request the start info.  Node calls it only while the server is
\* still listening.
ListenCallback(i) ==
    /\ startPc[i] = "listening"
    /\ serverSocket[i] = "listening"
    /\ LoopIdle
    /\ UNCHANGED <<ebVars, logVars>>
    /\ startPc' = [startPc EXCEPT ![i] = "started"]
    /\ RequestStartInfo(i)
    /\ UNCHANGED <<platform, s_activeInstance, isClosed, serverSocket,
                   closeCalls, serverCloseCalls, debugTestStops, socketVars, op,
                   debugType, debugEventListener, disposals, errorMessages,
                   summary,
                   debuggerEventsPipeName>>

\* ------------------------------------ DebugEventListener: the connections
\* The handlers keep no state of their own per connection, so a server's open
\* connections are counted, not told apart.
EventsLeft == accepted + chunks < MaxEvents

\* A debuggee connects to a listening server.
Accept(i) ==
    /\ serverSocket[i] = "listening"
    /\ LoopIdle
    /\ UNCHANGED ebVars
    /\ accepted' = accepted + 1
    /\ sockets' = [sockets EXCEPT ![i] = @ + 1]
    /\ UNCHANGED <<platform, s_activeInstance, isClosed, serverSocket,
                   startPc, chunks, closeCalls, serverCloseCalls, debugTestStops,
                   firstStop, launchPending, launchSubs,
                   sessionVars>>

Connect(i) ==
    /\ EventsLeft
    /\ Accept(i)
    /\ UNCHANGED logVars

\* firstStop once a stop signal of the given kind has reached instance i.
NoteStop(i, kind) ==
    IF firstStop[i] = "none" /\ ~isClosed[i] THEN kind ELSE firstStop[i]

\* A stop signal (a DebuggingStopped frame or the end of a connection)
\* reaches instance i.
StopSignal(i, kind) ==
    /\ firstStop' = [firstStop EXCEPT ![i] = NoteStop(i, kind)]
    /\ SetHeap(onDebuggingStopped(i, Heap))

\* The socket's 'data' handler, as far as the decoding goes: the warning it
\* logs when decodePacket throws, or the event it goes on to dispatch.
InvalidEventWarning == "Warning: Invalid event received from debugger"

dataHandler(chunk) ==
    LET event == decodePacket(chunk)
    IN  IF event.eventType = "Malformed"
        THEN [warning |-> TRUE, event |-> event]
        ELSE [warning |-> FALSE, event |-> event]

\* The 'data' handler treating a chunk it cannot decode as the end of the
\* debugging session.
Receive_stopOnInvalid(i, chunk) ==
    /\ sockets[i] > 0
    /\ LoopIdle
    /\ UNCHANGED ebVars
    /\ chunks' = chunks + 1
    /\ LET handled == dataHandler(chunk) IN
       IF ~handled.warning /\ handled.event.eventType = "ProcessLaunched"
       THEN /\ launchSubs' = [launchSubs EXCEPT ![i] = @ + 1]
            /\ launchPending' = [launchPending EXCEPT ![i] = @ + 1]
            /\ UNCHANGED <<s_activeInstance, isClosed, serverSocket, closeCalls,
                           serverCloseCalls, debugTestStops,
                           firstStop>>
       ELSE /\ StopSignal(i, "frame")
            /\ UNCHANGED <<launchPending, launchSubs>>
    /\ UNCHANGED <<platform, startPc, sockets, accepted, sessionVars>>

\* The socket's 'data' handler on one chunk: decode it; warn and return when
\* that fails; otherwise onProcessLaunched (subscribe to test messages, send
\* debugTestLaunch) or onDebuggingStopped.
Receive(i, chunk) ==
    /\ sockets[i] > 0
    /\ LoopIdle
    /\ UNCHANGED ebVars
    /\ chunks' = chunks + 1
    /\ LET handled == dataHandler(chunk) IN
       IF handled.warning
       THEN UNCHANGED <<s_activeInstance, isClosed, serverSocket, closeCalls,
                        serverCloseCalls, debugTestStops,
                        firstStop, launchPending, launchSubs>>
       ELSE IF handled.event.eventType = "ProcessLaunched"
       THEN /\ launchSubs' = [launchSubs EXCEPT ![i] = @ + 1]
            /\ launchPending' = [launchPending EXCEPT ![i] = @ + 1]
            /\ UNCHANGED <<s_activeInstance, isClosed, serverSocket, closeCalls,
                           serverCloseCalls, debugTestStops,
                           firstStop>>
       ELSE /\ StopSignal(i, "frame")
            /\ UNCHANGED <<launchPending, launchSubs>>
    /\ UNCHANGED <<platform, startPc, sockets, accepted, sessionVars>>

\* A chunk arrives on one of the connections of instance i.
SocketData(i) ==
    /\ sockets[i] > 0
    /\ EventsLeft
    /\ LoopIdle
    /\ UNCHANGED logVars
    /\ \E chunk \in Chunks : Receive(i, chunk)

\* The socket's 'end' handler: onDebuggingStopped.
SocketEnd(i) ==
    /\ sockets[i] > 0
    /\ LoopIdle
    /\ UNCHANGED <<ebVars, logVars>>
    /\ sockets' = [sockets EXCEPT ![i] = @ - 1]
    /\ StopSignal(i, "end")
    /\ UNCHANGED <<platform, startPc, accepted, chunks, launchPending,
                   launchSubs, sessionVars>>

\* The debugTestLaunch request settles; only its success disposes the
\* subscription onProcessLaunched made.
DebugTestLaunchResponse(i) ==
    /\ launchPending[i] > 0
    /\ LoopIdle
    /\ UNCHANGED <<ebVars, logVars>>
    /\ launchPending' = [launchPending EXCEPT ![i] = @ - 1]
    /\ \E ok \in BOOLEAN :
         launchSubs' = [launchSubs EXCEPT ![i] = IF ok THEN @ - 1 ELSE @]
    /\ UNCHANGED <<platform, s_activeInstance, isClosed, serverSocket,
                   startPc, sockets, accepted, chunks, closeCalls, serverCloseCalls,
                   debugTestStops, firstStop, sessionVars>>

\* ------------------------------------------------------------------ Spec
Next ==
    \/ \E s \in Sess : DebugTest(s)
    \/ \E s \in Sess : SaveDirtyFilesDone(s)
    \/ \E s \in Sess : ProjectInformationResponse(s)
    \/ \E s \in Sess : StartInfoResponse(s)
    \/ \E s \in Sess : StartDebugResult(s)
    \/ \E i \in Inst : RemoveSocketFileDone(i)
    \/ \E i \in Inst : ListenCallback(i)
    \/ \E i \in Inst : Connect(i)
    \/ \E i \in Inst : SocketData(i)
    \/ \E i \in Inst : SocketEnd(i)
    \/ \E i \in Inst : DebugTestLaunchResponse(i)

\* debugTest sessions and their event channels.
Spec == Init /\ [][Next]_vars

\* runTest sessions; they never touch an event channel.
NextRun ==
    \/ \E s \in Sess : RunTest(s)
    \/ \E s \in Sess : RunSaveDirtyFilesDone(s)
    \/ \E s \in Sess : RunTestResponse(s)

SpecRun == Init /\ [][NextRun]_vars

\* The first runTest session alone, with its response recorded: how the
\* request settled and the result list it carried.
ReportRunTestResponse ==
    /\ pc[1] = "running"
    /\ UNCHANGED <<wire, dispatched, warnings, faults, saveResult, ioLog, bus,
                   projectInfo, cfgVars>>
    /\ \E outcome \in RunOutcomes :
         IF outcome = "results"
         THEN \E results \in ResultLists :
                /\ RunTestSettles(1, outcome, results)
                /\ runResponse' = [outcome |-> outcome, results |-> results]
         ELSE /\ RunTestSettles(1, outcome, <<>>)
              /\ runResponse' = [outcome |-> outcome, results |-> <<>>]

NextReport ==
    \/ RunTest(1)
    \/ RunSaveDirtyFilesDone(1)
    \/ ReportRunTestResponse

SpecReport == Init /\ [][NextReport]_vars

\* ============================ debug sessions and their channels' start, recorded
\* SpecStart is debugTest up to the launch, with a record of what each
\* channel's start() has done: installed itself in s_activeInstance, called
\* utils.deleteIfExists, seen it resolve or reject, called listen().
otherLogVars == <<wire, dispatched, warnings, faults, saveResult, bus,
                 runResponse, projectInfo, cfgVars>>

\* The project information arrives; a vstest session constructs and starts
\* its channel.
StartProjectInformationResponse(s) ==
    /\ pc[s] = "projectInfo"
    /\ UNCHANGED otherLogVars
    /\ \E info \in ProjectInfos :
         /\ ProjectInformationArrives(s, info)
         /\ ioLog' =
              IF startPc'[s] # "removing" THEN ioLog
              ELSE ioLog
                   \o (IF s_activeInstance' = s
                       THEN << <<"install", s>> >> ELSE <<>>)
                   \o (IF removeSocketFileIfExists(platform) = "deleteIfExists"
                       THEN << <<"deleteIfExists", s>> >> ELSE <<>>)

\* removeSocketFileIfExists() settles; unless the deletion failed the
\* continuation calls listen().
StartRemoveSocketFileDone(i) ==
    /\ startPc[i] = "removing"
    /\ UNCHANGED otherLogVars
    /\ \E outcome \in RemoveOutcomes :
         /\ RemoveSocketFileSettles(i, outcome)
         /\ ioLog' =
              IF outcome = "removeFailed"
              THEN Append(ioLog, <<"deleteFailed", i>>)
              ELSE ioLog
                   \o (IF removeSocketFileIfExists(platform) = "deleteIfExists"
                       THEN << <<"deleted", i>> >> ELSE <<>>)
                   \o << <<"listen", i>> >>

NextStart ==
    \/ \E s \in Sess : DebugTest(s)
    \/ \E s \in Sess : SaveDirtyFilesDone(s)
    \/ \E s \in Sess : StartProjectInformationResponse(s)
    \/ \E i \in Inst : StartRemoveSocketFileDone(i)
    \/ \E i \in Inst : ListenCallback(i)
    \/ \E s \in Sess : StartInfoResponse(s)
    \/ \E s \in Sess : StartDebugResult(s)

SpecStart == Init /\ [][NextStart]_vars

\* ===================== debug sessions and their launch configurations, recorded
\* SpecCfg is debugTest up to the launch, with the setting the configuration
\* starts from, the objects _createLaunchConfiguration makes and the value it
\* returns for each session.
InitCfg == \E setting \in Settings : InitWith(setting)

\* The start-info response of a session: the configuration is built from the
\* setting, the response and the endpoint of the session's branch.
CfgStartInfoResponse(s) ==
    /\ pc[s] = "startInfo"
    /\ \E rejected \in BOOLEAN, response \in StartInfos :
         LET made == _createLaunchConfiguration(
                         objects, unitTestDebugingOptions,
                         response.program, response.args, response.cwd,
                         _getLaunchConfiguration(debugType[s],
                                                 debugEventListener[s]))
         IN  /\ StartInfoArrives(s, IF rejected THEN "rejected"
                                    ELSE IF made.throws THEN "configThrows"
                                    ELSE "ok")
             /\ IF rejected
                THEN UNCHANGED <<objects, startInfo, launchConfig>>
                ELSE /\ objects' = made.objects
                     /\ startInfo' = [startInfo EXCEPT ![s] = response]
                     /\ launchConfig' =
                            [launchConfig EXCEPT ![s] = made.result]
    /\ UNCHANGED <<wire, dispatched, warnings, faults, saveResult, ioLog, bus,
                   runResponse, projectInfo, unitTestDebugingOptions>>

NextCfg ==
    \/ \E s \in Sess : DebugTest(s)
    \/ \E s \in Sess : SaveDirtyFilesDone(s)
    \/ \E s \in Sess : ProjectInformationResponse(s)
    \/ \E i \in Inst : RemoveSocketFileDone(i)
    \/ \E i \in Inst : ListenCallback(i)
    \/ \E s \in Sess : CfgStartInfoResponse(s)
    \/ \E s \in Sess : StartDebugResult(s)

SpecCfg == InitCfg /\ [][NextCfg]_vars

\* ======================== debug sessions and their project information, recorded
\* SpecBranch is debugTest up to the launch, with the project-information
\* response each session was given.
BranchProjectInformationResponse(s) ==
    /\ pc[s] = "projectInfo"
    /\ UNCHANGED <<wire, dispatched, warnings, faults, saveResult, ioLog, bus,
                   runResponse, cfgVars>>
    /\ \E info \in ProjectInfos :
         /\ ProjectInformationArrives(s, info)
         /\ projectInfo' = [projectInfo EXCEPT ![s] = Received(info)]

NextBranch ==
    \/ \E s \in Sess : DebugTest(s)
    \/ \E s \in Sess : SaveDirtyFilesDone(s)
    \/ \E s \in Sess : BranchProjectInformationResponse(s)
    \/ \E i \in Inst : RemoveSocketFileDone(i)
    \/ \E i \in Inst : ListenCallback(i)
    \/ \E s \in Sess : StartInfoResponse(s)
    \/ \E s \in Sess : StartDebugResult(s)

SpecBranch == Init /\ [][NextBranch]_vars

\* ================== one debug session and its debuggee's connection, recorded
\* SpecConn is the first debugTest session alone, with one connection to its
\* channel, and with a record of what the environment delivered (wire,
\* faults) and of what the channel's handlers did with it (dispatched,
\* warnings).

\* removeSocketFileIfExists() settles; a failure is recorded.
ConnRemoveSocketFileDone ==
    /\ startPc[1] = "removing"
    /\ \E outcome \in RemoveOutcomes :
         /\ RemoveSocketFileSettles(1, outcome)
         /\ faults' = IF outcome = "removeFailed"
                      THEN Append(faults, "removeFailed")
                      ELSE IF outcome = "bindFailed"
                      THEN Append(faults, "errorBeforeStarted")
                      ELSE faults
         /\ UNCHANGED <<wire, dispatched, warnings, saveResult, ioLog, bus,
                        runResponse, projectInfo, cfgVars>>

\* The server reports an error after the listen callback has run (a failed
\* accept): the 'error' handler runs with isStarted true.  A reject() of the
\* promise the listen callback has resolved would have no effect.
ServerError ==
    /\ startPc[1] = "started"
    /\ serverSocket[1] = "listening"
    /\ Len(faults) < MaxFaults
    /\ LoopIdle
    /\ faults' = Append(faults, "errorAfterStarted")
    /\ warnings' = IF onServerError(TRUE) = "warn"
                   THEN Append(warnings, CommunicationsWarning)
                   ELSE warnings
    /\ UNCHANGED <<channelVars, sessionVars, ebVars, wire, dispatched,
                   saveResult, ioLog, bus, runResponse, projectInfo, cfgVars>>

\* The debuggee connects.
ConnAccept ==
    /\ accepted = 0
    /\ Accept(1)
    /\ UNCHANGED logVars

\* A chunk arrives on the connection.
ConnData ==
    /\ sockets[1] > 0
    /\ Len(wire) < MaxChunks
    /\ \E chunk \in Chunks :
         LET handled == dataHandler(chunk) IN
         /\ Receive(1, chunk)
         /\ wire' = Append(wire, chunk)
         /\ warnings' = IF handled.warning
                        THEN Append(warnings, InvalidEventWarning)
                        ELSE warnings
         /\ dispatched' = IF handled.warning THEN dispatched
                          ELSE Append(dispatched, handled.event)
    /\ UNCHANGED <<faults, saveResult, ioLog, bus, runResponse, projectInfo,
                   cfgVars>>

NextConn ==
    \/ DebugTest(1)
    \/ SaveDirtyFilesDone(1)
    \/ ProjectInformationResponse(1)
    \/ ConnRemoveSocketFileDone
    \/ ListenCallback(1)
    \/ StartInfoResponse(1)
    \/ StartDebugResult(1)
    \/ ServerError
    \/ ConnAccept
    \/ ConnData
    \/ SocketEnd(1)
    \/ DebugTestLaunchResponse(1)

SpecConn == Init /\ [][NextConn]_vars

\* ============================== the event-bus variant of DebugEventListener
\* The class of src/unnamed/part_001 lines 14-173: listeners are registered
\* with onProcessLaunched/onDebuggingStopped, close() returns a promise and
\* start() awaits the previous slot holder's close().  The sources hold no
\* caller of it, so its environment is a client that constructs the
\* instances (the constructor's `new NodeJS.EventEmitter()` is taken to
\* yield an emitter), registers one onDebuggingStopped listener on each,
\* calls start() at most once per instance and close() at any time.
\* startPc, isClosed, serverSocket, s_activeInstance and the socket counters
\* are the same fields as in the other variant.

\* The variables of the TestRunner and of its variant of the listener.
ebFrame == <<sessionVars, debugTestStops, launchPending, launchSubs>>
nonEbVars == <<sessionVars, debugTestStops, launchPending, launchSubs, logVars>>

EbHeap ==
    [active |-> s_activeInstance, closed |-> isClosed, server |-> serverSocket,
     closeCalls |-> closeCalls, serverCloseCalls |-> serverCloseCalls,
     callbacks |-> closeCallbacks, fired |-> stoppedFired, pc |-> startPc]

SetEbHeap(h) ==
    /\ s_activeInstance' = h.active
    /\ isClosed' = h.closed
    /\ serverSocket' = h.server
    /\ closeCalls' = h.closeCalls
    /\ serverCloseCalls' = h.serverCloseCalls
    /\ closeCallbacks' = h.callbacks
    /\ stoppedFired' = h.fired
    /\ startPc' = h.pc

\* close(): clear the slot; resolved at once when _isClosed is set; else ask
\* the server to close.  The callback comes later (EbServerClosed), with an
\* error when the server was not listening at the call.  waiter is the
\* instance whose start() awaits the returned promise, Null for the client.
\* With _serverSocket still undefined the executor throws and the promise is
\* rejected.
EbClose(i, h, waiter) ==
    LET h0 == [h EXCEPT !.closeCalls[i] = @ + 1]
        h1 == IF i = h0.active THEN [h0 EXCEPT !.active = Null] ELSE h0
    IN  IF h1.closed[i] \/ h1.server[i] = "undefined" THEN h1
        ELSE [h1 EXCEPT !.server[i] = "closed",
                        !.serverCloseCalls[i] = @ + 1,
                        !.callbacks[i] =
                            Append(@, [err |-> h1.server[i] # "listening",
                                       waiter |-> waiter])]

\* How close()'s promise stands when close() returns.
EbCloseResult(i, h) ==
    IF h.closed[i] THEN "resolved"
    ELSE IF h.server[i] = "undefined" THEN "rejected"
    ELSE "pending"

\* The continuations of start() after _clearActiveInstance() has resolved:
\* take the slot, create the server, then _removeSocketFileIfExists, which
\* start() passes to then() unbound: on win32 it returns without reading
\* `this` and listen() follows; elsewhere it reads this._pipePath with `this`
\* undefined, throws, and start() rejects.  ok: listen() can bind.
EbInstall(i, h, ok) ==
    LET h1 == [h EXCEPT !.active = i, !.server[i] = "created"]
        free == \A j \in Inst \ {i} : h1.server[j] # "listening"
    IN  IF platform = "win32" /\ ok /\ free
        THEN [h1 EXCEPT !.server[i] = "listening", !.pc[i] = "listening"]
        ELSE [h1 EXCEPT !.pc[i] = "rejected"]

\* The receiver the socket handlers run with.  start() hands
\* this._configureSocket to net.createServer unbound, so the server calls it
\* with itself as `this`, and the handlers' arrow functions capture that.
ConfigureSocketThis == "server"

\* _onDebuggingStopped(), as it runs when `this` is the listener.
EbOnDebuggingStopped(i, h) ==
    IF h.closed[i] THEN h
    ELSE EbClose(i, [h EXCEPT !.fired[i] = @ + 1], Null)

\* What a stop signal does: with the listener as receiver the stop handling;
\* with the server as receiver a TypeError (the server has neither _logger
\* nor _onDebuggingStopped) and no effect.
EbStopSignal(i, h) ==
    IF ConfigureSocketThis = "listener" THEN EbOnDebuggingStopped(i, h) ELSE h

\* The client calls start().
EbStart(i) ==
    /\ startPc[i] = "none"
    /\ i > 1 => startPc[i - 1] # "none"
    /\ \E ok \in BOOLEAN :
         LET a == s_activeInstance
             h == IF a = Null THEN EbHeap ELSE EbClose(a, EbHeap, i)
             result == IF a = Null THEN "resolved" ELSE EbCloseResult(a, EbHeap)
         IN  SetEbHeap(IF result = "resolved" THEN EbInstall(i, h, ok)
                       ELSE IF result = "rejected"
                       THEN [h EXCEPT !.pc[i] = "rejected"]
                       ELSE [h EXCEPT !.pc[i] = "clearing"])
    /\ UNCHANGED <<platform, sockets, accepted, chunks, firstStop, nonEbVars>>

\* The client calls close().
EbCloseCall(i) ==
    /\ closeCalls[i] < MaxCloses
    /\ SetEbHeap(EbClose(i, EbHeap, Null))
    /\ UNCHANGED <<platform, sockets, accepted, chunks, firstStop, nonEbVars>>

\* The callback close() passes to _serverSocket.close(): what it does to
\* close()'s promise.  The test is `if (!err) reject(err) else resolve()`.
closeCallback(err) == IF ~err THEN "rejected" ELSE "resolved"

\* The callbacks of one 'close' event, in order: a callback without error
\* rejects its promise, one with an error resolves it (the test is `!err`),
\* and a start() waiting on the promise is rejected or goes on to install.
RECURSIVE EbSettle(_, _, _)
EbSettle(callbacks, h, ok) ==
    IF callbacks = <<>> THEN h
    ELSE LET cb == Head(callbacks)
             h1 == IF cb.waiter = Null THEN h
                   ELSE IF closeCallback(cb.err) = "resolved"
                   THEN EbInstall(cb.waiter, h, ok)
                   ELSE [h EXCEPT !.pc[cb.waiter] = "rejected"]
         IN  EbSettle(Tail(callbacks), h1, ok)

\* The server's 'close' event: all its connections have ended.  Every
\* callback registered so far runs and sets _isClosed.
EbServerCloses(i, ok) ==
    /\ closeCallbacks[i] # <<>>
    /\ sockets[i] = 0
    /\ SetEbHeap(EbSettle(closeCallbacks[i],
                          [EbHeap EXCEPT !.closed[i] = TRUE,
                                         !.callbacks[i] = <<>>], ok))
    /\ UNCHANGED <<platform, sockets, accepted, chunks, firstStop, ebFrame>>

EbServerClosed(i) ==
    /\ closeCallbacks[i] # <<>>
    /\ UNCHANGED logVars
    /\ \E ok \in BOOLEAN : EbServerCloses(i, ok)

\* The listen callback: start() resolves.
EbListenCallback(i) ==
    /\ startPc[i] = "listening"
    /\ serverSocket[i] = "listening"
    /\ startPc' = [startPc EXCEPT ![i] = "started"]
    /\ UNCHANGED <<platform, s_activeInstance, isClosed, serverSocket, closeCalls,
                   serverCloseCalls, closeCallbacks, stoppedFired, sockets,
                   accepted, chunks, firstStop, nonEbVars>>

\* The socket's 'data' handler.  Every path of it reads this._logger or calls
\* this._onDebuggingStopped, so with the server as receiver every chunk ends
\* in a TypeError; with the listener as receiver a DebuggingStopped frame
\* runs the stop handling.
EbReceive(i, chunk) ==
    /\ sockets[i] > 0
    /\ EventsLeft
    /\ chunks' = chunks + 1
    /\ IF decodePacket(chunk).eventType = "DebuggingStopped"
       THEN /\ firstStop' = [firstStop EXCEPT ![i] = NoteStop(i, "frame")]
            /\ SetEbHeap(EbStopSignal(i, EbHeap))
       ELSE UNCHANGED <<firstStop, s_activeInstance, isClosed, serverSocket,
                        closeCalls, serverCloseCalls, closeCallbacks,
                        stoppedFired, startPc>>
    /\ UNCHANGED <<platform, sockets, accepted, ebFrame>>

EbSocketData(i) ==
    /\ sockets[i] > 0
    /\ UNCHANGED logVars
    /\ \E chunk \in Chunks : EbReceive(i, chunk)

\* The socket's 'end' handler.
EbEnd(i) ==
    /\ sockets[i] > 0
    /\ sockets' = [sockets EXCEPT ![i] = @ - 1]
    /\ firstStop' = [firstStop EXCEPT ![i] = NoteStop(i, "end")]
    /\ SetEbHeap(EbStopSignal(i, EbHeap))
    /\ UNCHANGED <<platform, accepted, chunks, ebFrame>>

EbSocketEnd(i) == EbEnd(i) /\ UNCHANGED logVars

\* ------------------------------------------ event-bus variant: the listeners
\* SpecBus is the first event-bus instance alone, with its emitter: the
\* events of the listeners registered so far, in registration order (a
\* listener is known by its position), the listeners disposed, the emitter's
\* listener list, the listener calls made, and how the close() promises of
\* the client have settled; wire has the chunks its connections delivered.
BusEvents == {"ProcessLaunched", "DebuggingStopped"}

\* _addListener(): _eventBus.addListener(event, listener).
_addListener(b, event) ==
    [b EXCEPT !.registered = Append(@, event),
              !.listeners = Append(@, [id |-> Len(b.registered) + 1,
                                       event |-> event])]

\* The disposable _addListener returns: _eventBus.removeListener(event,
\* listener).
disposeListener(b, id) ==
    [b EXCEPT !.disposed = @ \cup {id},
              !.listeners = SelectSeq(@, LAMBDA l : l.id # id)]

\* emit(event, ...args) of the emitter: the listeners of the event are
\* called in the order of its list, each with the arguments emit was given
\* after the event.
emit(b, event, args) ==
    LET ls == SelectSeq(b.listeners, LAMBDA l : l.event = event)
    IN  [k \in 1..Len(ls) |->
           [listener |-> ls[k].id, event |-> event, arguments |-> args]]

\* _fireEvent with the rest parameters spread into emit's.
_fireEvent_spread(b, event, args) == emit(b, event, args)

\* _fireEvent(event, ...args): _eventBus.emit(event, args).  emit is given
\* one argument after the event, the array of the rest parameters.
_fireEvent(b, event, args) == emit(b, event, <<JsArray(args)>>)

\* The listener calls the data handler makes for a chunk.  With the server
\* as receiver it ends in a TypeError before any call.
EbDispatch(i, chunk) ==
    LET event == decodePacket(chunk) IN
    IF ConfigureSocketThis # "listener" THEN <<>>
    ELSE IF event.eventType = "ProcessLaunched"
    THEN _fireEvent(bus, "ProcessLaunched",
                    <<JsNumber(event.targetProcessId)>>)
    ELSE IF event.eventType = "DebuggingStopped" /\ ~isClosed[i]
    THEN _fireEvent(bus, "DebuggingStopped", <<>>)
    ELSE <<>>

\* The listener calls the end handler makes.
EbEndDispatch(i) ==
    IF ConfigureSocketThis = "listener" /\ ~isClosed[i]
    THEN _fireEvent(bus, "DebuggingStopped", <<>>)
    ELSE <<>>

\* How the callbacks of one 'close' event settle the promises close()
\* returned to the client, in order.
RECURSIVE EbSettled(_)
EbSettled(callbacks) ==
    IF callbacks = <<>> THEN <<>>
    ELSE (IF Head(callbacks).waiter = Null
          THEN <<closeCallback(Head(callbacks).err)>> ELSE <<>>)
         \o EbSettled(Tail(callbacks))

busFrame == <<dispatched, warnings, faults, saveResult, ioLog, runResponse,
              projectInfo,
              cfgVars>>

\* The client registers a listener with onProcessLaunched or
\* onDebuggingStopped.
BusAddListener ==
    /\ Len(bus.registered) < MaxListeners
    /\ \E event \in BusEvents : bus' = _addListener(bus, event)
    /\ UNCHANGED <<channelVars, sessionVars, ebVars, wire, busFrame>>

\* The client disposes a listener it has registered.
BusDispose ==
    /\ \E id \in 1..Len(bus.registered) \ bus.disposed :
         bus' = disposeListener(bus, id)
    /\ UNCHANGED <<channelVars, sessionVars, ebVars, wire, busFrame>>

\* The client calls close(); a promise that is settled when close() returns
\* is on record at once.
BusCloseCall ==
    /\ closeCalls[1] < MaxCloses
    /\ SetEbHeap(EbClose(1, EbHeap, Null))
    /\ bus' = IF EbCloseResult(1, EbHeap) = "pending" THEN bus
              ELSE [bus EXCEPT !.settled =
                                  Append(@, EbCloseResult(1, EbHeap))]
    /\ UNCHANGED <<platform, sockets, accepted, chunks, firstStop, ebFrame,
                   wire, busFrame>>

BusServerClosed ==
    /\ closeCallbacks[1] # <<>>
    /\ bus' = [bus EXCEPT !.settled = @ \o EbSettled(closeCallbacks[1])]
    /\ UNCHANGED <<wire, busFrame>>
    /\ \E ok \in BOOLEAN : EbServerCloses(1, ok)

BusSocketData ==
    /\ sockets[1] > 0
    /\ UNCHANGED busFrame
    /\ \E chunk \in Chunks :
         /\ EbReceive(1, chunk)
         /\ wire' = Append(wire, chunk)
         /\ bus' = [bus EXCEPT !.calls = @ \o EbDispatch(1, chunk)]

BusSocketEnd ==
    /\ EbEnd(1)
    /\ bus' = [bus EXCEPT !.calls = @ \o EbEndDispatch(1)]
    /\ UNCHANGED <<wire, busFrame>>

NextBus ==
    \/ BusAddListener
    \/ BusDispose
    \/ EbStart(1)
    \/ BusCloseCall
    \/ BusServerClosed
    \/ EbListenCallback(1)
    \/ Connect(1)
    \/ BusSocketData
    \/ BusSocketEnd

SpecBus == Init /\ [][NextBus]_vars

NextEb ==
    \/ \E i \in Inst : EbStart(i)
    \/ \E i \in Inst : EbCloseCall(i)
    \/ \E i \in Inst : EbServerClosed(i)
    \/ \E i \in Inst : EbListenCallback(i)
    \/ \E i \in Inst : Connect(i)
    \/ \E i \in Inst : EbSocketData(i)
    \/ \E i \in Inst : EbSocketEnd(i)

SpecEb == Init /\ [][NextEb]_vars

\* Shape of the channel state under Spec.
TypeOK ==
    /\ s_activeInstance \in Inst \cup {Null}
    /\ \A i \in Inst :
         /\ serverSocket[i] \in {"undefined", "created", "listening", "closed"}
         /\ startPc[i] \in {"none", "removing", "listening", "started", "rejected"}
         /\ closeCalls[i] > 0 => serverSocket[i] # "undefined"
         /\ sockets[i] \in 0..MaxEvents


\* ================================================================ claims
Listening == {i \in Inst : serverSocket[i] = "listening"}

\* C1 (refuted by the code): at most one Event Channel is bound at any time,
\* also when a second start() runs while the first is still waiting for its
\* socket-file removal or listen callback.
C1_AtMostOneBound == Cardinality(Listening) <= 1

\* C2: when start() runs on a second channel while a first is bound and holds
\* the slot, that step leaves the first closed (flag set, server closed) and
\* the slot on the second, which is not listening yet; and a close() on a
\* channel that is already closed changes neither the slot nor any other
\* channel.
C2_SecondStartClosesFirst ==
    [][/\ ( /\ startPc' # startPc
            /\ s_activeInstance # Null
            /\ serverSocket[s_activeInstance] = "listening" )
          => \A b \in Inst \ {s_activeInstance} :
                 (startPc[b] = "none" /\ startPc'[b] = "removing")
                 => /\ isClosed'[s_activeInstance]
                    /\ serverSocket'[s_activeInstance] = "closed"
                    /\ s_activeInstance' = b
                    /\ serverSocket'[b] = "created"
       /\ closeCalls' # closeCalls
          => \A a \in Inst :
                 (closeCalls'[a] > closeCalls[a] /\ isClosed[a])
                 => /\ s_activeInstance' = s_activeInstance
                    /\ \A b \in Inst \ {a} :
                         /\ isClosed'[b] = isClosed[b]
                         /\ serverSocket'[b] = serverSocket[b]]_vars

\* The first channel was bound and has been closed by the second one's
\* start(); the second is bound and holds the slot; close() has run on the
\* first once more since.
C2_Witness ==
    /\ s_activeInstance = 2
    /\ serverSocket[2] = "listening"
    /\ startPc[1] = "started"
    /\ serverSocket[1] = "closed"
    /\ isClosed[1]
    /\ debugTestStops[1] = 0
    /\ closeCalls[1] = 2

\* C3: the slot is empty or references a channel that has not been closed.
C3_SlotNeverClosed ==
    s_activeInstance # Null => ~isClosed[s_activeInstance]

\* The first session has failed and its channel has been closed; the second
\* session's channel holds the slot.
C3_Witness ==
    /\ s_activeInstance = 2
    /\ isClosed[1]
    /\ closeCalls[1] >= 1
    /\ pc[1] = "failed"

\* C4: for each channel the stop handling (debugTestStop, then close) has run
\* exactly once if some DebuggingStopped frame or connection end arrived
\* while the channel was open, and not at all otherwise.
C4_StopHandledOnce ==
    \A i \in Inst : debugTestStops[i] = IF firstStop[i] # "none" THEN 1 ELSE 0

\* The only connection delivered one chunk, a DebuggingStopped frame that
\* found the channel open, and has ended since: two stop signals, one
\* request.
C4_Witness ==
    \E i \in Inst :
        /\ accepted = 1
        /\ chunks = 1
        /\ sockets[i] = 0
        /\ firstStop[i] = "frame"
        /\ debugTestStops[i] = 1

\* C5 (refuted by the code): in the event-bus variant, when a DebuggingStopped
\* frame has reached an open channel and the connection that carried it has
\* ended, the onDebuggingStopped listener has been invoked exactly once.
C5_StoppedListenerOnce ==
    \A i \in Inst :
        (firstStop[i] = "frame" /\ accepted = 1 /\ sockets[i] = 0)
        => stoppedFired[i] = 1

\* C6: once a stop signal has been handled on an open channel, the channel is
\* closed, its server no longer listens and the slot does not reference it.
C6_StopImpliesClose ==
    \A i \in Inst :
        firstStop[i] # "none" => /\ isClosed[i]
                                 /\ serverSocket[i] = "closed"
                                 /\ s_activeInstance # i

\* A debuggee connected, sent ProcessLaunched and disconnected: one chunk, one
\* debugTestLaunch request, one stop signal (the end).
C6_Witness ==
    \E i \in Inst :
        /\ accepted = 1
        /\ chunks = 1
        /\ sockets[i] = 0
        /\ launchSubs[i] = 1
        /\ firstStop[i] = "end"
        /\ debugTestStops[i] = 1
        /\ isClosed[i]

\* C7: close() is idempotent on a started channel: the server is asked to
\* close exactly once however often close() runs; a close() on a channel
\* already closed changes no state of any channel; and a close() sends a
\* debugTestStop request only as part of the stop handling.
C7_CloseIdempotent ==
    /\ [](\A i \in Inst :
            serverCloseCalls[i] = IF closeCalls[i] > 0 THEN 1 ELSE 0)
    /\ [][\A i \in Inst :
            closeCalls'[i] > closeCalls[i] =>
              IF isClosed[i]
              THEN UNCHANGED <<s_activeInstance, isClosed, serverSocket,
                               serverCloseCalls, debugTestStops>>
              ELSE /\ isClosed'[i]
                   /\ debugTestStops'[i] # debugTestStops[i]
                        => (firstStop[i] = "none" /\ firstStop'[i] # "none")]_vars

\* close() has run twice on a channel: once from its stop handling and once
\* from debugTest's catch.
C7_Witness ==
    \E i \in Inst :
        /\ closeCalls[i] = 2
        /\ serverCloseCalls[i] = 1
        /\ debugTestStops[i] = 1
        /\ pc[i] = "failed"

\* C8 (refuted by the code): after debugTest has failed with an Event Channel
\* created, the channel is closed and not listening, the slot does not
\* reference it, and one error message has been shown.
C8_FailedSessionTearsDown ==
    \A s \in Sess :
        (pc[s] = "failed" /\ debugEventListener[s] # Null)
        => /\ isClosed[debugEventListener[s]]
           /\ serverSocket[debugEventListener[s]] # "listening"
           /\ s_activeInstance # debugEventListener[s]
           /\ errorMessages[s] = 1

\* C9 (refuted by the code): in debugTest the transient test-message listener
\* is gone once the start-info request has settled, whether it succeeded or
\* failed.
C9_StartInfoListenerDisposed ==
    \A s \in Sess :
        (op[s] = "debugTest" /\ pc[s] \in {"launching", "done", "failed"})
        => ~subscribed[s]

\* C10: in runTest the test-message listener is live until the run ends and
\* has been disposed exactly once when it has ended, on success and on
\* failure alike.
C10_RunTestDisposesOnce ==
    \A s \in Sess :
        op[s] = "runTest" =>
            IF pc[s] \in {"done", "failed"}
            THEN disposals[s] = 1 /\ ~subscribed[s]
            ELSE disposals[s] = 0 /\ subscribed[s]

\* One run has ended in success and one in failure.
C10_Witness ==
    /\ op[1] = "runTest" /\ pc[1] = "failed" /\ errorMessages[1] = 1
    /\ op[2] = "runTest" /\ pc[2] = "done"

\* C11 (refuted by the code): a ProcessLaunched frame whose words arrive in
\* two data callbacks of one connection is buffered: the first chunk (the
\* incomplete prefix) is not decoded, logs no warning and dispatches nothing,
\* and once the second chunk has completed the frame it has been dispatched
\* exactly once.
C11_SplitFrameBuffered ==
    \A p \in Pids :
        LET frame == <<ProcessLaunchedCode, p>>
            head == SubSeq(frame, 1, 1)
            tail == SubSeq(frame, 2, 2)
        IN  /\ wire = <<head>> => (warnings = <<>> /\ dispatched = <<>>)
            /\ wire = <<head, tail>>
                 => (warnings = <<>> /\ dispatched = <<decodePacket(frame)>>)

\* C12 (refuted by the code): as long as every chunk of the connection holds
\* complete frames only, the events dispatched are the frames received, each
\* once and in the order of arrival, also when one chunk holds several
\* frames.
C12_EveryFrameDispatched ==
    (\A k \in 1..Len(wire) : Rest(wire[k]) = <<>>)
    => dispatched = Frames(Flatten(wire))

LateErrorOnlyWarns ==
    faults' = Append(faults, "errorAfterStarted")
    => /\ warnings' = Append(warnings, CommunicationsWarning)
       /\ UNCHANGED <<channelVars, sessionVars>>

C15_StartSurvivesPreviousClose ==
    [][\A i \in Inst :
         (startPc[i] = "clearing" /\ startPc'[i] # "clearing")
         => /\ s_activeInstance' = i
            /\ serverSocket'[i] \in {"created", "listening"}]_vars

\* C16: when the project information has neither DotNetProject nor
\* MsBuildProject, the turn that receives it fails the session with one error
\* message: no DebugEventListener is constructed, the slot and every channel
\* are unchanged, no start-info request is sent (no test-message listener is
\* subscribed for it) and no launch configuration reaches the front-end.
C16_UnsupportedProjectFails ==
    [][\A s \in Sess :
         pc[s] = "projectInfo" =>
           \A info \in ProjectInfos :
             ( /\ ~info.rejected
               /\ ~info.DotNetProject
               /\ ~info.MsBuildProject
               /\ ProjectInformationArrives(s, info) )
             => /\ pc'[s] = "failed"
                /\ errorMessages'[s] = errorMessages[s] + 1
                /\ debugEventListener'[s] = Null
                /\ debugType'[s] = "undefined"
                /\ ~subscribed'[s]
                /\ debuggerEventsPipeName'[s] = "none"
                /\ UNCHANGED channelVars]_vars

\* The second session has failed without a channel of its own while the
\* first session's channel is bound and holds the slot.
C16_Witness ==
    /\ pc[2] = "failed"
    /\ debugType[2] = "undefined"
    /\ debugEventListener[2] = Null
    /\ errorMessages[2] = 1
    /\ ~subscribed[2]
    /\ s_activeInstance = 1
    /\ serverSocket[1] = "listening"
    /\ closeCalls[1] = 0

\* C17: in a vstest session the start-info request is sent in the turn in
\* which the channel's start() resolves, with the server listening, and not
\* before; the launch is requested only in the turn that receives the
\* start-info response; and the launch configuration's debuggerEventsPipeName
\* is the pipePath() of the session's channel.
C17_VstestStepsOrdered ==
    /\ [](\A s \in Sess : debugType[s] = "vstest" =>
            /\ pc[s] = "starting"
                 => (startPc[s] \in {"removing", "listening"} /\ ~subscribed[s])
            /\ pc[s] \in {"startInfo", "launching", "done"}
                 => startPc[s] = "started"
            /\ pc[s] \in {"starting", "startInfo"}
                 => debuggerEventsPipeName[s] = "none"
            /\ pc[s] \in {"launching", "done"}
                 => debuggerEventsPipeName[s] = pipePath(debugEventListener[s]))
    /\ [][\A s \in Sess : debugType'[s] = "vstest" =>
            /\ (pc'[s] = "startInfo" /\ pc[s] # "startInfo")
                 => /\ pc[s] = "starting"
                    /\ startPc[s] = "listening" /\ startPc'[s] = "started"
                    /\ serverSocket[s] = "listening"
                    /\ subscribed'[s]
            /\ (pc'[s] = "launching" /\ pc[s] # "launching")
                 => pc[s] = "startInfo"]_vars

\* A vstest session has requested the launch: its channel is started and
\* bound and the configuration names the channel's endpoint.
C17_Witness ==
    /\ debugType[1] = "vstest"
    /\ pc[1] = "launching"
    /\ startPc[1] = "started"
    /\ serverSocket[1] = "listening"
    /\ debuggerEventsPipeName[1] = pipePath(debugEventListener[1])
    /\ debuggerEventsPipeName[1] # NullPipeName

\* C18: a legacy session has no DebugEventListener: its local stays null and
\* no start() runs for it; none of its steps, its failure included, changes
\* the slot or any channel; and the launch configuration it hands to the
\* front-end has a null debuggerEventsPipeName.
C18_LegacyHasNoChannel ==
    /\ [](\A s \in Sess : debugType[s] = "legacy" =>
            /\ debugEventListener[s] = Null
            /\ startPc[s] = "none"
            /\ serverSocket[s] = "undefined"
            /\ pc[s] \in {"launching", "done"}
                 => debuggerEventsPipeName[s] = NullPipeName)
    /\ [][\A s \in Sess :
            (debugType'[s] = "legacy" /\ pc'[s] # pc[s])
            => UNCHANGED channelVars]_vars

\* A legacy session has launched with a null endpoint while the channel of
\* the vstest session before it is still bound and holds the slot.
C18_Witness ==
    /\ debugType[1] = "vstest"
    /\ s_activeInstance = 1
    /\ serverSocket[1] = "listening"
    /\ closeCalls[1] = 0
    /\ debugType[2] = "legacy"
    /\ pc[2] = "done"
    /\ debuggerEventsPipeName[2] = NullPipeName

\* C19: the turn in which the front-end accepts the launch of a vstest
\* session changes nothing of any channel; and once the session is done, a
\* step that closes its channel, calls close() on it, takes the slot from it
\* or unbinds its server is the channel's own stop handling (a
\* DebuggingStopped frame or the end of a connection) or the start() of
\* another channel.
C19_SuccessLeavesChannelOpen ==
    [][\A s \in Sess : debugType[s] = "vstest" =>
         /\ (pc[s] = "launching" /\ pc'[s] = "done") => UNCHANGED channelVars
         /\ ( /\ pc[s] = "done"
              /\ \/ isClosed'[s] # isClosed[s]
                 \/ closeCalls'[s] # closeCalls[s]
                 \/ serverSocket'[s] # serverSocket[s]
                 \/ (s_activeInstance = s /\ s_activeInstance' # s) )
            => \/ /\ debugTestStops'[s] = debugTestStops[s] + 1
                  /\ firstStop[s] = "none" /\ firstStop'[s] # "none"
               \/ \E j \in Inst \ {s} :
                      startPc[j] = "none" /\ startPc'[j] = "removing"]_vars

\* A vstest session has succeeded and the debuggee has connected: the
\* channel is open, bound and holds the slot, and close() never ran on it.
C19_Witness ==
    /\ debugType[1] = "vstest"
    /\ pc[1] = "done"
    /\ ~isClosed[1]
    /\ serverSocket[1] = "listening"
    /\ s_activeInstance = 1
    /\ closeCalls[1] = 0
    /\ sockets[1] = 1

\* C20 (refuted by the code): in runTest no run-test request is sent while
\* the save is outstanding, and when the save has failed, by rejecting or by
\* reporting that files could not be saved, no run-test request is ever sent
\* and no result summary is logged.
C20_RunOnlyAfterSave ==
    \A s \in Sess : op[s] = "runTest" =>
        /\ saveResult[s] = "pending" => pc[s] = "saving"
        /\ saveResult[s] \in {"notSaved", "rejected"}
             => (pc[s] = "failed" /\ ~summary[s].logged)

\* Number of results of a list that carry the given outcome tag.
Count(results, outcome) ==
    Cardinality({k \in 1..Len(results) : results[k] = outcome})

\* C21: for every result list the server returns, the totals line logged has
\* total = the length of the list and passed, failed, skipped = the number
\* of results tagged Passed, Failed, Skipped; a result with any other tag
\* counts toward the total only, so passed + failed + skipped <= total in
\* every summary logged.  A summary is logged exactly when the response
\* carried a result list.
C21_SummaryCounts ==
    LET results == runResponse.results IN
    /\ summary[1].logged <=> runResponse.outcome = "results"
    /\ summary[1].logged =>
         /\ summary[1].total = Len(results)
         /\ summary[1].passed = Count(results, "passed")
         /\ summary[1].failed = Count(results, "failed")
         /\ summary[1].skipped = Count(results, "skipped")
         /\ summary[1].passed + summary[1].failed + summary[1].skipped
              <= summary[1].total

\* A run has reported a list of two with one result passed and one that is
\* neither passed, failed nor skipped.
C21_Witness ==
    /\ op[1] = "runTest" /\ pc[1] = "done"
    /\ runResponse.results = <<"passed", "none">>
    /\ summary[1] = [logged |-> TRUE, total |-> 2, passed |-> 1,
                     failed |-> 0, skipped |-> 0]

\* C22 (refuted by the code): in runTest, when saving, the run-test request
\* or the reporting of the results fails, exactly one error message is shown
\* and the steps after the failing one are skipped; when every step succeeds
\* no error message is shown.
C22_OneErrorPerFailure ==
    \A s \in Sess : op[s] = "runTest" =>
        /\ errorMessages[s] <= 1
        /\ pc[s] \in {"saving", "running", "done"} => errorMessages[s] = 0
        /\ pc[s] = "failed" => errorMessages[s] = 1 /\ ~summary[s].logged
        /\ pc[s] = "done" => saveResult[s] = "saved" /\ summary[s].logged
        /\ saveResult[s] \in {"notSaved", "rejected"}
             => pc[s] = "failed" /\ errorMessages[s] = 1

\* The object stored under the setting, when the setting is an object.
StoredOptions == objects[unitTestDebugingOptions.ref]

\* C23: building a launch configuration never changes the stored default
\* debug options: no step changes the setting or the content of its object,
\* so after any number of debugTest sessions it equals its initial value;
\* the configuration a session gets is an object of its own, neither the
\* stored one nor another session's, so no field a session assigns shows in
\* the defaults a later session reads.
C23_DefaultsNeverMutated ==
    /\ [](\A s \in Sess :
            launchConfig[s].type = "object" =>
              /\ launchConfig[s] # unitTestDebugingOptions
              /\ \A r \in Sess \ {s} : launchConfig[r] # launchConfig[s])
    /\ [][/\ unitTestDebugingOptions' = unitTestDebugingOptions
          /\ unitTestDebugingOptions.type = "object" =>
               objects'[unitTestDebugingOptions.ref] = StoredOptions]_vars

\* Two sessions have built their configurations from different responses and
\* from defaults that name a program of the user's own.
C23_Witness ==
    /\ unitTestDebugingOptions.type = "object"
    /\ "program" \in DOMAIN StoredOptions
    /\ StoredOptions.program = "mine.exe"
    /\ \A s \in Sess : launchConfig[s].type = "object"
    /\ objects[launchConfig[1].ref].program = "dotnet"
    /\ objects[launchConfig[2].ref].program = "dotnet-test-xunit"

\* C24: every launch configuration debugTest hands to the debugging front-end
\* has name '.NET Test Launch', type 'coreclr', request 'launch' and the
\* session's program, arguments, working directory and debugger-events
\* endpoint (none in the legacy variant), also when the defaults define the
\* same keys with other values; a key only the defaults have is carried over
\* with its value.
C24_SessionFieldsWin ==
    \A s \in Sess :
      /\ pc[s] = "launching" => launchConfig[s].type = "object"
      /\ launchConfig[s].type = "object" =>
           LET config == objects[launchConfig[s].ref] IN
           /\ SessionKeys \subseteq DOMAIN config
           /\ config.name = ".NET Test Launch"
           /\ config.type = "coreclr"
           /\ config.request = "launch"
           /\ config.program = startInfo[s].program
           /\ config.args = startInfo[s].args
           /\ config.cwd = startInfo[s].cwd
           /\ config.debuggerEventsPipeName =
                IF debugType[s] = "vstest"
                THEN pipePath(debugEventListener[s]) ELSE NullPipeName
           /\ unitTestDebugingOptions.type = "object" =>
                \A k \in DOMAIN StoredOptions \ SessionKeys :
                  k \in DOMAIN config /\ config[k] = StoredOptions[k]

\* A vstest session is launching with a configuration built from defaults
\* that define every session key with a value of the user's own and one key
\* more.
C24_Witness ==
    /\ unitTestDebugingOptions.type = "object"
    /\ DOMAIN StoredOptions = SessionKeys \cup {"justMyCode"}
    /\ pc[1] = "launching" /\ debugType[1] = "vstest"
    /\ launchConfig[1].type = "object"
    /\ objects[launchConfig[1].ref].justMyCode = "false"
    /\ objects[launchConfig[1].ref].program = "dotnet"
    /\ pc[2] = "launching" /\ debugType[2] = "legacy"
    /\ objects[launchConfig[2].ref].debuggerEventsPipeName = NullPipeName

\* Position in ioLog of the first entry <<what, i>>, 0 when there is none.
LogPos(what, i) ==
    IF \E k \in 1..Len(ioLog) : ioLog[k] = <<what, i>>
    THEN CHOOSE k \in 1..Len(ioLog) :
           /\ ioLog[k] = <<what, i>>
           /\ \A j \in 1..(k - 1) : ioLog[j] # <<what, i>>
    ELSE 0

\* C25: where the endpoint is a file-system path, a start() has finished
\* removing the file at the path before it calls listen, and when the removal
\* fails start() fails and listen is not called; on win32 no removal is
\* attempted; on either platform the instance has installed itself as the
\* singleton holder before it calls listen.
C25_RemovalBeforeListen ==
    \A i \in Inst :
      /\ LogPos("listen", i) > 0 =>
           /\ LogPos("install", i) \in 1..(LogPos("listen", i) - 1)
           /\ platform # "win32" =>
                /\ LogPos("deleteIfExists", i) \in 1..(LogPos("listen", i) - 1)
                /\ LogPos("deleted", i) \in
                     (LogPos("deleteIfExists", i) + 1)..(LogPos("listen", i) - 1)
      /\ LogPos("deleteFailed", i) > 0 =>
           /\ LogPos("listen", i) = 0
           /\ startPc[i] = "rejected"
           /\ serverSocket[i] # "listening"
           /\ pc[i] = "failed"
      /\ platform = "win32" =>
           /\ LogPos("deleteIfExists", i) = 0
           /\ LogPos("deleted", i) = 0
           /\ LogPos("deleteFailed", i) = 0

\* On a file-system platform two channels were started one after the other
\* while both removals were pending; the first one's removal failed, the
\* second one's succeeded and it went on to listen.
C25_Witness ==
    /\ platform = "posix"
    /\ LogPos("deleteIfExists", 1) > 0
    /\ LogPos("deleteIfExists", 2) > 0
    /\ LogPos("deleteIfExists", 2) < LogPos("deleteFailed", 1)
    /\ LogPos("listen", 2) > 0
    /\ serverSocket[2] = "listening"

\* The listeners registered for the event and not disposed, in registration
\* order.
LiveListeners(event) ==
    SelectSeq([id \in 1..Len(bus.registered) |-> id],
              LAMBDA id : bus.registered[id] = event /\ id \notin bus.disposed)

\* The listeners called, in the order of the calls.
Called(calls) == [k \in 1..Len(calls) |-> calls[k].listener]

\* C26 (refuted by the code): in the event-bus DebugEventListener every
\* occurrence of an event, a ProcessLaunched frame or a DebuggingStopped
\* frame on an open channel, invokes all the listeners registered for it that
\* have not been disposed, in registration order, and no disposed one.
C26_ListenersInOrder ==
    [][Len(wire') = Len(wire) + 1 =>
         LET event == decodePacket(wire'[Len(wire')]).eventType IN
         ( \/ event = "ProcessLaunched"
           \/ event = "DebuggingStopped" /\ ~isClosed[1] )
         => Called(bus'.calls) = Called(bus.calls) \o LiveListeners(event)]_vars

\* C27 (refuted by the code): a channel that has been closed, by close(), by
\* its own stop handling or by a newer channel's start(), never starts
\* listening afterwards; a start() whose socket-file removal was pending when
\* the channel was closed does not go on to listen.
C27_ClosedNeverListens ==
    [][\A i \in Inst :
         (isClosed[i] /\ serverSocket[i] # "listening")
         => serverSocket'[i] # "listening"]_vars

\* C28 (refuted by the code): after a channel is closed no event received on
\* a connection of it that is still open is acted on: no debugTestLaunch
\* request is sent, no test-message listener is registered for one, and no
\* debugTestStop request is sent.
C28_NoEventsAfterClose ==
    [][\A i \in Inst :
         isClosed[i] =>
           /\ launchPending'[i] <= launchPending[i]
           /\ launchSubs'[i] <= launchSubs[i]
           /\ debugTestStops'[i] = debugTestStops[i]]_vars

\* C29 (refuted by the code): the test-message listener the channel registers
\* when it handles a ProcessLaunched event is disposed when its
\* debugTestLaunch request settles, whether the request succeeds or fails:
\* the live listeners of a channel are those of its requests still pending,
\* no subscription outlives its request.
C29_LaunchListenerDisposed ==
    \A i \in Inst : launchSubs[i] = launchPending[i]

\* What the claim has a close() promise do when the server's close callback
\* comes for it: resolve without a close error, reject with one.
RECURSIVE SettledAsClaimed(_)
SettledAsClaimed(callbacks) ==
    IF callbacks = <<>> THEN <<>>
    ELSE <<IF Head(callbacks).err THEN "rejected" ELSE "resolved">>
         \o SettledAsClaimed(Tail(callbacks))

\* C30 (refuted by the code): in the event-bus DebugEventListener the promise
\* close() returns on a started, open channel resolves when the server has
\* closed without error and rejects only when the server reports a close
\* error; either way the closed flag is set when it settles.
C30_ClosePromiseSettles ==
    [][( /\ startPc[1] = "started"
         /\ closeCallbacks[1] # <<>> /\ closeCallbacks'[1] = <<>> )
       => /\ isClosed'[1]
          /\ bus'.settled = bus.settled \o SettledAsClaimed(closeCallbacks[1])]_vars

\* The listener calls a step has added.
NewCalls == SubSeq(bus'.calls, Len(bus.calls) + 1, Len(bus'.calls))

\* C31 (refuted by the code): in the event-bus DebugEventListener every
\* ProcessLaunched frame received while the channel is open invokes each
\* listener registered with onProcessLaunched and not disposed once, with
\* one argument, the target process id of the frame itself.
C31_ListenerGetsProcessId ==
    [][Len(wire') = Len(wire) + 1 =>
         LET event == decodePacket(wire'[Len(wire')]) IN
         (event.eventType = "ProcessLaunched" /\ ~isClosed[1])
         => /\ Called(NewCalls) = LiveListeners("ProcessLaunched")
            /\ \A k \in 1..Len(NewCalls) :
                 NewCalls[k].arguments
                   = <<JsNumber(event.targetProcessId)>>]_vars

\* C32: a session whose project-information response carries both the legacy
\* marker (DotNetProject) and the build-system marker (MsBuildProject) is a
\* legacy session: it has no DebugEventListener, no start() runs for it, it
\* goes on to the start-info request of the legacy variant and its launch
\* configuration has a null debuggerEventsPipeName; and a session is a
\* vstest session exactly when its response carried the build-system marker
\* without the legacy marker.
C32_BothMarkersSelectLegacy ==
    \A s \in Sess :
      (projectInfo[s].received /\ ~projectInfo[s].rejected) =>
        /\ (projectInfo[s].DotNetProject /\ projectInfo[s].MsBuildProject)
             => /\ debugType[s] = "legacy"
                /\ debugEventListener[s] = Null
                /\ startPc[s] = "none"
                /\ serverSocket[s] = "undefined"
                /\ pc[s] \in {"startInfo", "launching", "done", "failed"}
                /\ pc[s] = "startInfo" => subscribed[s]
                /\ pc[s] \in {"launching", "done"}
                     => debuggerEventsPipeName[s] = NullPipeName
        /\ debugType[s] = "vstest"
             <=> (projectInfo[s].MsBuildProject /\ ~projectInfo[s].DotNetProject)

\* The second session was given both markers and has launched as a legacy
\* session with a null endpoint, while the first, given the build-system
\* marker alone, is a vstest session whose channel is listening.
C32_Witness ==
    /\ projectInfo[2] = [received |-> TRUE, rejected |-> FALSE,
                         DotNetProject |-> TRUE, MsBuildProject |-> TRUE]
    /\ debugType[2] = "legacy"
    /\ pc[2] = "done"
    /\ debuggerEventsPipeName[2] = NullPipeName
    /\ debugEventListener[2] = Null
    /\ projectInfo[1] = [received |-> TRUE, rejected |-> FALSE,
                         DotNetProject |-> FALSE, MsBuildProject |-> TRUE]
    /\ debugType[1] = "vstest"
    /\ serverSocket[1] = "listening"

===========================================================================
